---------------------------- MODULE Spec2Model ----------------------------
(***************************************************************************)
(* Model of thrifty.matchmaker.match_toads (src/thrifty/matchmaker.py).    *)
(*                                                                         *)
(* A detection is a record with the fields the matcher reads: timestamp,   *)
(* txid, rxid and corr_info.energy (flattened to energy).  Timestamps,     *)
(* the window and energies are floats in the program and small integers    *)
(* here; the matcher only adds a timestamp to the window and compares.     *)
(* The list toads is a function on 0..num_det-1, so that indices are the   *)
(* program's 0-based indices.                                              *)
(*                                                                         *)
(* One action is one step of the two nested loops of match_toads: the      *)
(* outer loop over anchors i (lines 43-72) and the inner scan over j       *)
(* (lines 50-66).                                                          *)
(***************************************************************************)
EXTENDS Integers, Sequences, FiniteSets, TLC

\* Bounds of the model.
MaxLen == 3          \* longest timestamp-sorted input
MaxLenAny == 2       \* longest input of arbitrary order
MaxTime == 1         \* timestamps are 0..MaxTime
MaxWindow == 1       \* windows are up to MaxWindow
MaxMinMatch == 3     \* min_match is up to MaxMinMatch
StoreMaxLen == 2     \* save_matches: at most so many matches, each of at
                     \* most so many indices
MatrixMaxMatches == 2 \* extract_match_matrix: at most so many matches
MatrixMaxMatchLen == 2 \* extract_match_matrix: matches of at most so many
                     \* indices
LoadMaxText == 5     \* load_matches: files of at most so many characters

TxIds == {1, 2}
RxIds == {1, 2}
Energies == {1, 2}

VARIABLES
    toads,       \* the input list, 0-based
    window,      \* parameter window
    min_match,   \* parameter min_match
    killed,      \* killed[k]: detection k was absorbed by some scan
    matches,     \* list of matches; a match is kept as the rx_match whose
                 \* values() it is, so that a repeated index stays visible
    misses,      \* list of anchors whose window failed the quorum
    collisions,  \* list of pairs <<prev, j>>
    i,           \* outer loop index
    j,           \* inner loop index
    rx_match,    \* accumulation map rxid -> index of the open window
    pc,          \* "outer": at line 43, "inner": at line 50, "done": returned
    anchors,     \* history: the indices that opened a window (line 47)
    absorbed,    \* history: pairs <<anchor, j>> that reached line 55
    match_anchor,\* history: match_anchor[k] opened the window of matches[k]
    losers,      \* history: the index not kept by line 62, per collision
    \* save_matches and load_matches
    sv_matches,  \* the list of matches given to save_matches
    sv_k,        \* number of matches save_matches has written
    file_text,   \* the characters of the match file
    ld_pos,      \* load_matches: position of the next unread character
    ld_matches,  \* load_matches: its local list matches
    ld_error,    \* the exception load_matches ended in
    store_pc,    \* "idle", "save", "load", "loaded" or "raised"
    store_call,  \* "none", "save_load" (save, then load the file) or "load"
    \* extract_match_matrix
    mx_detections, \* parameter detections (only txid and rxid are read)
    mx_matches,  \* parameter matches, lists of indices
    mx_rxids,    \* parameter rxids
    mx_txids,    \* parameter txids: [given |-> FALSE] stands for None
    mx_k,        \* number of matches processed
    matrix,      \* the local list matrix
    mx_src,      \* history: mx_src[n] is the position in mx_matches of the
                 \* match that row n was made from
    mx_pc        \* "idle", "run" or "done"

matchVars == <<toads, window, min_match, killed, matches, misses, collisions,
               i, j, rx_match, pc, anchors, absorbed, match_anchor, losers>>

storeVars == <<sv_matches, sv_k, file_text, ld_pos, ld_matches, ld_error,
               store_pc, store_call>>

matrixVars == <<mx_detections, mx_matches, mx_rxids, mx_txids, mx_k, matrix,
                mx_src, mx_pc>>

vars == <<matchVars, storeVars, matrixVars>>

Detection == [timestamp : 0..MaxTime, txid : TxIds, rxid : RxIds,
              energy : Energies]

Inputs(n) == UNION {[0..(m - 1) -> Detection] : m \in 0..n}

num_det == Cardinality(DOMAIN toads)

\* "List should be sorted by timestamp" (docstring of match_toads).
Sorted(t) ==
    \A a, b \in DOMAIN t : a < b => t[a].timestamp <= t[b].timestamp

Range(s) == {s[k] : k \in DOMAIN s}

\* Lines 36-41: the locals of match_toads after its first statements.
Locals ==
    /\ killed = [k \in DOMAIN toads |-> FALSE]
    /\ matches = <<>>
    /\ misses = <<>>
    /\ collisions = <<>>
    /\ i = 0
    /\ j = 0
    /\ rx_match = <<>>
    /\ pc = "outer"
    /\ anchors = {}
    /\ absorbed = {}
    /\ match_anchor = <<>>
    /\ losers = {}

\* No call of save_matches or load_matches is under way.
StoreIdle ==
    /\ sv_matches = <<>>
    /\ sv_k = 0
    /\ file_text = <<>>
    /\ ld_pos = 1
    /\ ld_matches = <<>>
    /\ ld_error = [type |-> "none", literal |-> <<>>]
    /\ store_pc = "idle"
    /\ store_call = "none"

\* No call of extract_match_matrix is under way.
MatrixIdle ==
    /\ mx_detections = <<>>
    /\ mx_matches = <<>>
    /\ mx_rxids = <<>>
    /\ mx_txids = [given |-> FALSE, ids |-> {}]
    /\ mx_k = 0
    /\ matrix = <<>>
    /\ mx_src = <<>>
    /\ mx_pc = "idle"

\* A call that respects the documented contract: sorted input, window >= 0,
\* min_match >= 1.
Init ==
    /\ toads \in {t \in Inputs(MaxLen) : Sorted(t)}
    /\ window \in 0..MaxWindow
    /\ min_match \in 1..MaxMinMatch
    /\ Locals
    /\ StoreIdle
    /\ MatrixIdle

\* Any call: match_toads validates none of its arguments.
InitAny ==
    /\ toads \in Inputs(MaxLenAny)
    /\ window \in (-1)..MaxWindow
    /\ min_match \in 0..MaxMinMatch
    /\ Locals
    /\ StoreIdle
    /\ MatrixIdle

\* Mutant of DiffTx: the transmitter is not compared.
DiffTxNever(a, b) == FALSE

\* Line 51: toads[j].txid != toads[i].txid
DiffTx(a, b) == toads[b].txid # toads[a].txid

\* Mutant of BeyondWindow: the two indices exchanged.
BeyondWindowSwapped(a, b) ==
    toads[a].timestamp > toads[b].timestamp + window

\* Mutant of BeyondWindow: >= for >, the edge of the window is excluded.
BeyondWindowInclusive(a, b) ==
    toads[b].timestamp >= toads[a].timestamp + window

\* Line 53: toads[j].timestamp > toads[i].timestamp + window
BeyondWindow(a, b) == toads[b].timestamp > toads[a].timestamp + window

\* Mutant of Kill: the absorbed detection is not marked.
KillNone(b) == killed

\* Line 55: killed[j] = True
Kill(b) == [killed EXCEPT ![b] = TRUE]

\* Line 57: toads[j].rxid in rx_match != -1.  Python chains the comparison
\* as (rxid in rx_match) and (rx_match != -1); a dict never equals -1.
InRxMatch(r) == r \in DOMAIN rx_match

\* Mutant of Winner: >= for >, a tie keeps the earlier detection.
WinnerTiePrev(prev, b) ==
    IF toads[prev].energy >= toads[b].energy THEN prev ELSE b

\* Lines 60-62: k = prev if prev_ampl > this_ampl else j
Winner(prev, b) ==
    IF toads[prev].energy > toads[b].energy THEN prev ELSE b

\* Line 66: rx_match[toads[j].rxid] = k
Put(m, r, k) ==
    [x \in DOMAIN m \cup {r} |-> IF x = r THEN k ELSE m[x]]

\* Line 68: match = rx_match.values(), as the set of its members
Values(m) == {m[r] : r \in DOMAIN m}

\* Mutant of HasQuorum: the quorum test is off by one.
HasQuorumOffByOne(m) == Cardinality(DOMAIN m) + 1 >= min_match

\* Line 69: len(match) >= min_match
HasQuorum(m) == Cardinality(DOMAIN m) >= min_match

\* Mutant of MissesOf: the detection retained for the anchor's receiver is
\* reported in place of the anchor.
MissesOfRetained(a, m) == <<m[toads[a].rxid]>>

\* Line 72: misses.append(i)
MissesOf(a, m) == <<a>>

\* Mutant of ScanStart: the scan starts at the head of the list.
ScanStartZero(a) == 0

\* Line 50: range(i + 1, num_det) starts right after the anchor.
ScanStart(a) == a + 1

\* Lines 43-45: a killed index is not an anchor.
SkipKilled ==
    /\ pc = "outer"
    /\ i < num_det
    /\ killed[i]
    /\ i' = i + 1
    /\ UNCHANGED <<toads, window, min_match, killed, matches, misses,
                   collisions, j, rx_match, pc, anchors, absorbed, losers,
                   match_anchor>>
    /\ UNCHANGED <<storeVars, matrixVars>>

\* Lines 43-50: an index that is not killed opens a window.
OpenWindow ==
    /\ pc = "outer"
    /\ i < num_det
    /\ ~killed[i]
    /\ rx_match' = Put(<<>>, toads[i].rxid, i)
    /\ j' = ScanStart(i)
    /\ pc' = "inner"
    /\ anchors' = anchors \cup {i}
    /\ UNCHANGED <<toads, window, min_match, killed, matches, misses,
                   collisions, i, absorbed, losers, match_anchor>>
    /\ UNCHANGED <<storeVars, matrixVars>>

\* Lines 50-52: a detection of another transmitter is passed over.
ScanSkip ==
    /\ pc = "inner"
    /\ j < num_det
    /\ DiffTx(i, j)
    /\ j' = j + 1
    /\ UNCHANGED <<toads, window, min_match, killed, matches, misses,
                   collisions, i, rx_match, pc, anchors, absorbed, losers,
                   match_anchor>>
    /\ UNCHANGED <<storeVars, matrixVars>>

\* Lines 50-66, else branch of line 57: a new receiver enters the map.
ScanInsert ==
    /\ pc = "inner"
    /\ j < num_det
    /\ ~DiffTx(i, j)
    /\ ~BeyondWindow(i, j)
    /\ ~InRxMatch(toads[j].rxid)
    /\ killed' = Kill(j)
    /\ rx_match' = Put(rx_match, toads[j].rxid, j)
    /\ absorbed' = absorbed \cup {<<i, j>>}
    /\ j' = j + 1
    /\ UNCHANGED <<toads, window, min_match, matches, misses, collisions,
                   i, pc, anchors, losers, match_anchor>>
    /\ UNCHANGED <<storeVars, matrixVars>>

\* Lines 50-66, then branch of line 57: a collision.
ScanCollide ==
    /\ pc = "inner"
    /\ j < num_det
    /\ ~DiffTx(i, j)
    /\ ~BeyondWindow(i, j)
    /\ InRxMatch(toads[j].rxid)
    /\ killed' = Kill(j)
    /\ LET prev == rx_match[toads[j].rxid]
           k == Winner(prev, j)
       IN  /\ collisions' = Append(collisions, <<prev, j>>)
           /\ rx_match' = Put(rx_match, toads[j].rxid, k)
           /\ losers' = losers \cup ({prev, j} \ {k})
    /\ absorbed' = absorbed \cup {<<i, j>>}
    /\ j' = j + 1
    /\ UNCHANGED <<toads, window, min_match, matches, misses, i, pc,
                   anchors, match_anchor>>
    /\ UNCHANGED <<storeVars, matrixVars>>

\* The inner loop ends: j ran off the list (line 50) or line 54 breaks.
ScanOver ==
    \/ j = num_det
    \/ j < num_det /\ ~DiffTx(i, j) /\ BeyondWindow(i, j)

\* Lines 68-70: the window has the quorum.
CloseMatch ==
    /\ pc = "inner"
    /\ ScanOver
    /\ HasQuorum(rx_match)
    /\ matches' = Append(matches, rx_match)
    /\ match_anchor' = Append(match_anchor, i)
    /\ i' = i + 1
    /\ pc' = "outer"
    /\ UNCHANGED <<toads, window, min_match, killed, misses, collisions,
                   j, rx_match, anchors, absorbed, losers>>
    /\ UNCHANGED <<storeVars, matrixVars>>

\* Lines 68-72: the window fails the quorum.
CloseMiss ==
    /\ pc = "inner"
    /\ ScanOver
    /\ ~HasQuorum(rx_match)
    /\ misses' = misses \o MissesOf(i, rx_match)
    /\ i' = i + 1
    /\ pc' = "outer"
    /\ UNCHANGED <<toads, window, min_match, killed, matches, collisions,
                   j, rx_match, anchors, absorbed, losers, match_anchor>>
    /\ UNCHANGED <<storeVars, matrixVars>>

\* Line 74: return matches, misses, collisions
Return ==
    /\ pc = "outer"
    /\ i = num_det
    /\ pc' = "done"
    /\ UNCHANGED <<toads, window, min_match, killed, matches, misses,
                   collisions, i, j, rx_match, anchors, absorbed, losers,
                   match_anchor>>
    /\ UNCHANGED <<storeVars, matrixVars>>

Next ==
    \/ SkipKilled
    \/ OpenWindow
    \/ ScanSkip
    \/ ScanInsert
    \/ ScanCollide
    \/ CloseMatch
    \/ CloseMiss
    \/ Return

Spec == Init /\ [][Next]_vars

SpecAny == InitAny /\ [][Next]_vars

-----------------------------------------------------------------------------
(* save_matches and load_matches (src/thrifty/matchmaker.py, lines 77-93).  *)
(* A file is the sequence of its characters, a character a string of        *)
(* length one.                                                              *)

NL == "\n"

Digits == <<"0", "1", "2", "3", "4", "5", "6", "7", "8", "9">>

\* The indices written by save_matches: one, two and three digits.
StoreIndices == {0, 10, 207}

\* The characters of the files given to load_matches.
LoadChars == {"1", " ", NL, "#", "x"}

SeqsUpTo(S, n) == UNION {[1..m -> S] : m \in 0..n}

\* Line 93: str(index), the decimal digits of a non-negative int.
RECURSIVE Str(_)
Str(n) ==
    IF n < 10 THEN <<Digits[n + 1]>>
    ELSE Str(n \div 10) \o <<Digits[(n % 10) + 1]>>

\* Line 93: ' '.join(map(str, match))
RECURSIVE Join(_)
Join(match) ==
    IF match = <<>> THEN <<>>
    ELSE IF Len(match) = 1 THEN Str(match[1])
    ELSE Str(match[1]) \o <<" ">> \o Join(Tail(match))

\* Mutant of SaveLine: the newline is not written.
SaveLineNoNewline(match) == Join(match)

\* Line 93: file_.write(' '.join(map(str, match)) + '\n')
SaveLine(match) == Join(match) \o <<NL>>

\* Line 82: iterating a file yields its lines, each with its newline; the
\* line that starts at p ends at the next newline or at the end of the file.
RECURSIVE LineEnd(_, _)
LineEnd(text, p) ==
    IF p >= Len(text) THEN Len(text)
    ELSE IF text[p] = NL THEN p
    ELSE LineEnd(text, p + 1)

LineAt(text, p) == SubSeq(text, p, LineEnd(text, p))

\* Line 83: len(line) == 0 or line[0] == '#'
IsSkipped(line) == Len(line) = 0 \/ line[1] = "#"

IsSpace(c) == c \in {" ", NL}

\* Line 85: line.split(), the maximal runs of non-whitespace characters.
RECURSIVE SplitFrom(_, _, _, _)
SplitFrom(line, k, cur, out) ==
    LET flushed == IF cur = <<>> THEN out ELSE Append(out, cur)
    IN  IF k > Len(line) THEN flushed
        ELSE IF IsSpace(line[k]) THEN SplitFrom(line, k + 1, <<>>, flushed)
        ELSE SplitFrom(line, k + 1, Append(cur, line[k]), out)

Split(line) == SplitFrom(line, 1, <<>>, <<>>)

\* Line 85: int(token) accepts, among the strings over these characters,
\* the non-empty strings of digits.
IsIntLiteral(tok) ==
    /\ tok # <<>>
    /\ \A k \in DOMAIN tok : \E d \in DOMAIN Digits : Digits[d] = tok[k]

DigitValue(c) == (CHOOSE d \in DOMAIN Digits : Digits[d] = c) - 1

RECURSIVE IntOf(_)
IntOf(tok) ==
    IF Len(tok) = 1 THEN DigitValue(tok[1])
    ELSE 10 * IntOf(SubSeq(tok, 1, Len(tok) - 1)) + DigitValue(tok[Len(tok)])

\* Line 85: list(map(int, tokens)), when every token is accepted.
MapInt(tokens) == [k \in DOMAIN tokens |-> IntOf(tokens[k])]

BadTokens(tokens) == SelectSeq(tokens, LAMBDA t : ~IsIntLiteral(t))

\* The ValueError of int(): it carries the literal, nothing else.
ValueError(tok) == [type |-> "ValueError", literal |-> tok]

NoError == [type |-> "none", literal |-> <<>>]

\* The idle state of match_toads.
MatchIdle ==
    /\ toads = <<>>
    /\ window = 0
    /\ min_match = 1
    /\ Locals

\* Either save_matches is called on a list of lists of indices and
\* load_matches then reads the file written, or load_matches is called on a
\* file of arbitrary characters.
InitStore ==
    /\ MatchIdle
    /\ MatrixIdle
    /\ sv_k = 0
    /\ ld_pos = 1
    /\ ld_matches = <<>>
    /\ ld_error = NoError
    /\ \/ /\ store_call = "save_load"
          /\ store_pc = "save"
          /\ sv_matches \in SeqsUpTo(SeqsUpTo(StoreIndices, StoreMaxLen),
                                     StoreMaxLen)
          /\ file_text = <<>>
       \/ /\ store_call = "load"
          /\ store_pc = "load"
          /\ sv_matches = <<>>
          /\ file_text \in SeqsUpTo(LoadChars, LoadMaxText)

\* Lines 92-93: one match is written.
SaveWrite ==
    /\ store_pc = "save"
    /\ sv_k < Len(sv_matches)
    /\ file_text' = file_text \o SaveLine(sv_matches[sv_k + 1])
    /\ sv_k' = sv_k + 1
    /\ UNCHANGED <<sv_matches, ld_pos, ld_matches, ld_error, store_pc,
                   store_call>>
    /\ UNCHANGED <<matchVars, matrixVars>>

\* Line 92: the loop of save_matches ends; load_matches is then called on
\* the file (lines 77-81).
SaveReturn ==
    /\ store_pc = "save"
    /\ sv_k = Len(sv_matches)
    /\ store_pc' = "load"
    /\ UNCHANGED <<sv_matches, sv_k, file_text, ld_pos, ld_matches, ld_error,
                   store_call>>
    /\ UNCHANGED <<matchVars, matrixVars>>

\* Lines 82-84: a line is passed over.
LoadSkip ==
    /\ store_pc = "load"
    /\ ld_pos <= Len(file_text)
    /\ IsSkipped(LineAt(file_text, ld_pos))
    /\ ld_pos' = LineEnd(file_text, ld_pos) + 1
    /\ UNCHANGED <<sv_matches, sv_k, file_text, ld_matches, ld_error,
                   store_pc, store_call>>
    /\ UNCHANGED <<matchVars, matrixVars>>

\* Lines 82-86: a line is parsed and appended.
LoadAppend ==
    /\ store_pc = "load"
    /\ ld_pos <= Len(file_text)
    /\ LET line == LineAt(file_text, ld_pos)
       IN  /\ ~IsSkipped(line)
           /\ BadTokens(Split(line)) = <<>>
           /\ ld_matches' = Append(ld_matches, MapInt(Split(line)))
    /\ ld_pos' = LineEnd(file_text, ld_pos) + 1
    /\ UNCHANGED <<sv_matches, sv_k, file_text, ld_error, store_pc,
                   store_call>>
    /\ UNCHANGED <<matchVars, matrixVars>>

\* Line 85: int() raises at the first token it does not accept, and the
\* exception leaves load_matches.
LoadRaise ==
    /\ store_pc = "load"
    /\ ld_pos <= Len(file_text)
    /\ LET line == LineAt(file_text, ld_pos)
       IN  /\ ~IsSkipped(line)
           /\ BadTokens(Split(line)) # <<>>
           /\ ld_error' = ValueError(BadTokens(Split(line))[1])
    /\ store_pc' = "raised"
    /\ UNCHANGED <<sv_matches, sv_k, file_text, ld_pos, ld_matches,
                   store_call>>
    /\ UNCHANGED <<matchVars, matrixVars>>

\* Line 87: return matches
LoadReturn ==
    /\ store_pc = "load"
    /\ ld_pos > Len(file_text)
    /\ store_pc' = "loaded"
    /\ UNCHANGED <<sv_matches, sv_k, file_text, ld_pos, ld_matches, ld_error,
                   store_call>>
    /\ UNCHANGED <<matchVars, matrixVars>>

NextStore ==
    \/ SaveWrite
    \/ SaveReturn
    \/ LoadSkip
    \/ LoadAppend
    \/ LoadRaise
    \/ LoadReturn

SpecStore == InitStore /\ [][NextStore]_vars

-----------------------------------------------------------------------------
(* extract_match_matrix (src/thrifty/matchmaker.py, lines 96-110).  A match *)
(* is a list of indices into detections; the lists are 1-based here, the    *)
(* indices 0-based.                                                         *)

\* The indices of the detections given to extract_match_matrix.
DetIds == {0, 1}

\* Line 100: None
NoneCell == 0 - 1

\* The receiver orderings: the lists of distinct rxid.
RxOrders ==
    {o \in SeqsUpTo(RxIds, Cardinality(RxIds)) :
        \A a, b \in DOMAIN o : a # b => o[a] # o[b]}

\* Parameter txids: None, or a set of txid.
TxFilters ==
    {[given |-> FALSE, ids |-> {}]}
        \cup {[given |-> TRUE, ids |-> f] : f \in SUBSET TxIds}

InitMatrix ==
    /\ MatchIdle
    /\ StoreIdle
    /\ mx_detections \in [DetIds -> [txid : TxIds, rxid : RxIds]]
    /\ mx_matches \in SeqsUpTo(SeqsUpTo(DetIds, MatrixMaxMatchLen),
                               MatrixMaxMatches)
    /\ mx_rxids \in RxOrders
    /\ mx_txids \in TxFilters
    /\ mx_k = 0
    /\ matrix = <<>>
    /\ mx_src = <<>>
    /\ mx_pc = "run"

\* Line 99: match_rxids = [detections[m].rxid for m in match]
MatchRxids(match) == [k \in DOMAIN match |-> mx_detections[match[k]].rxid]

\* Line 102: rxid not in match_rxids
RxMissing(match, rxid) ==
    \A k \in DOMAIN match : MatchRxids(match)[k] # rxid

\* Line 104: txids is not None and detections[match[0]].txid not in txids
TxFiltered(match) ==
    mx_txids.given /\ mx_detections[match[1]].txid \notin mx_txids.ids

\* Mutant of Cell: the position in the match is stored, not the index.
CellPosition(match, rxid) ==
    (CHOOSE k \in DOMAIN match :
        /\ MatchRxids(match)[k] = rxid
        /\ \A l \in 1..(k - 1) : MatchRxids(match)[l] # rxid) - 1

\* Line 107: match[match_rxids.index(rxid)], index() giving the first
\* position.
Cell(match, rxid) ==
    match[CHOOSE k \in DOMAIN match :
              /\ MatchRxids(match)[k] = rxid
              /\ \A l \in 1..(k - 1) : MatchRxids(match)[l] # rxid]

\* Lines 101-107: the loop over rxids from position k on; broke tells that
\* it ended in a break.
RECURSIVE RowLoop(_, _, _)
RowLoop(match, k, row) ==
    IF k > Len(mx_rxids) THEN [broke |-> FALSE, row |-> row]
    ELSE IF RxMissing(match, mx_rxids[k]) THEN [broke |-> TRUE, row |-> row]
    ELSE IF TxFiltered(match) THEN [broke |-> TRUE, row |-> row]
    ELSE RowLoop(match, k + 1,
                 [row EXCEPT ![k] = Cell(match, mx_rxids[k])])

\* Lines 99-107 for one match; line 100: row = [None] * len(rxids)
RowOf(match) == RowLoop(match, 1, [k \in DOMAIN mx_rxids |-> NoneCell])

\* Lines 98-109: the loop over rxids ends without a break, the else branch
\* appends the row.
MatrixAppend ==
    /\ mx_pc = "run"
    /\ mx_k < Len(mx_matches)
    /\ ~RowOf(mx_matches[mx_k + 1]).broke
    /\ matrix' = Append(matrix, RowOf(mx_matches[mx_k + 1]).row)
    /\ mx_src' = Append(mx_src, mx_k + 1)
    /\ mx_k' = mx_k + 1
    /\ UNCHANGED <<mx_detections, mx_matches, mx_rxids, mx_txids, mx_pc>>
    /\ UNCHANGED <<matchVars, storeVars>>

\* Lines 98-105: the loop over rxids breaks, no row is appended.
MatrixBreak ==
    /\ mx_pc = "run"
    /\ mx_k < Len(mx_matches)
    /\ RowOf(mx_matches[mx_k + 1]).broke
    /\ mx_k' = mx_k + 1
    /\ UNCHANGED <<mx_detections, mx_matches, mx_rxids, mx_txids, matrix,
                   mx_src, mx_pc>>
    /\ UNCHANGED <<matchVars, storeVars>>

\* Line 110: return matrix
MatrixReturn ==
    /\ mx_pc = "run"
    /\ mx_k = Len(mx_matches)
    /\ mx_pc' = "done"
    /\ UNCHANGED <<mx_detections, mx_matches, mx_rxids, mx_txids, mx_k,
                   matrix, mx_src>>
    /\ UNCHANGED <<matchVars, storeVars>>

NextMatrix ==
    \/ MatrixAppend
    \/ MatrixBreak
    \/ MatrixReturn

SpecMatrix == InitMatrix /\ [][NextMatrix]_vars

-----------------------------------------------------------------------------
(* match_toads as a function of its arguments: the same loops, computed in  *)
(* one evaluation.  A state st holds killed, matches, misses, collisions.   *)

StartFn(t) ==
    [killed |-> [k \in DOMAIN t |-> FALSE], matches |-> <<>>,
     misses |-> <<>>, collisions |-> <<>>]

\* Lines 55-66 for one absorbed detection b: the new killed, collisions and
\* accumulation map m.
AbsorbFn(t, b, m, st) ==
    LET r == t[b].rxid
        hit == r \in DOMAIN m
        prev == m[r]
        k == IF hit /\ t[prev].energy > t[b].energy THEN prev ELSE b
    IN  [m |-> [x \in DOMAIN m \cup {r} |-> IF x = r THEN k ELSE m[x]],
         st |-> [st EXCEPT
                   !.killed = [@ EXCEPT ![b] = TRUE],
                   !.collisions = IF hit THEN Append(@, <<prev, b>>) ELSE @]]

\* Lines 50-66: the scan of anchor a from index b on; the transmitter is
\* tested first and the scan breaks at a detection of the anchor's
\* transmitter beyond the window.
RECURSIVE ScanFn(_, _, _, _, _, _)
ScanFn(t, w, a, b, m, st) ==
    IF b >= Cardinality(DOMAIN t) THEN [m |-> m, st |-> st]
    ELSE IF t[b].txid # t[a].txid THEN ScanFn(t, w, a, b + 1, m, st)
    ELSE IF t[b].timestamp > t[a].timestamp + w THEN [m |-> m, st |-> st]
    ELSE LET n == AbsorbFn(t, b, m, st)
         IN  ScanFn(t, w, a, b + 1, n.m, n.st)

\* The scan of the specified algorithm: it stops at the first detection of
\* any transmitter beyond the window, and only then looks at the transmitter.
RECURSIVE GlobalExitScan(_, _, _, _, _, _)
GlobalExitScan(t, w, a, b, m, st) ==
    IF b >= Cardinality(DOMAIN t) THEN [m |-> m, st |-> st]
    ELSE IF t[b].timestamp > t[a].timestamp + w THEN [m |-> m, st |-> st]
    ELSE IF t[b].txid # t[a].txid THEN GlobalExitScan(t, w, a, b + 1, m, st)
    ELSE LET n == AbsorbFn(t, b, m, st)
         IN  GlobalExitScan(t, w, a, b + 1, n.m, n.st)

\* Lines 43-72: the outer loop from anchor a on; g selects the scan.
RECURSIVE OuterFn(_, _, _, _, _, _)
OuterFn(t, w, mm, g, a, st) ==
    IF a >= Cardinality(DOMAIN t) THEN st
    ELSE IF st.killed[a] THEN OuterFn(t, w, mm, g, a + 1, st)
    ELSE LET seed == [x \in {t[a].rxid} |-> a]
             s == IF g THEN GlobalExitScan(t, w, a, a + 1, seed, st)
                       ELSE ScanFn(t, w, a, a + 1, seed, st)
             out == IF Cardinality(DOMAIN s.m) >= mm
                    THEN [s.st EXCEPT !.matches = Append(@, s.m)]
                    ELSE [s.st EXCEPT !.misses = Append(@, a)]
         IN  OuterFn(t, w, mm, g, a + 1, out)

\* Lines 12-74: match_toads(toads, window, min_match).
MatchToadsFn(t, w, mm) == OuterFn(t, w, mm, FALSE, 0, StartFn(t))

\* The specified algorithm with its global early exit.
GlobalExitMatch(t, w, mm) == OuterFn(t, w, mm, TRUE, 0, StartFn(t))

-----------------------------------------------------------------------------
(* Vocabulary of the claims. *)

InSomeMatch(x) == \E k \in DOMAIN matches : x \in Values(matches[k])

InMisses(x) == x \in Range(misses)

IsLoser(x) == x \in losers

\* The anchors whose window is closed and gave no match: the windows that
\* failed the quorum.
FailedAnchors ==
    {a \in anchors : a < i /\ a \notin Range(match_anchor)}

\* The pairs <<anchor, member>> of the windows that failed the quorum.
FailedMembers == {p \in absorbed : p[1] \in FailedAnchors}

-----------------------------------------------------------------------------
\* C1: on a sorted input with window >= 0 and min_match >= 1, every index is
\* in at most one of: the members of some match, the misses, the collision
\* losers; a collision loser is never a miss.
C1_AtMostOneGroup ==
    \A x \in DOMAIN toads :
        /\ ~(InSomeMatch(x) /\ InMisses(x))
        /\ ~(InSomeMatch(x) /\ IsLoser(x))
        /\ ~(InMisses(x) /\ IsLoser(x))

\* C2: every emitted match holds detections of at least min_match distinct
\* receivers, for every input and every min_match.
C2_Quorum ==
    \A k \in DOMAIN matches :
        Cardinality({toads[x].rxid : x \in Values(matches[k])}) >= min_match

\* A match of exactly min_match = 2 receivers, emitted for an input that is
\* not sorted by timestamp.
C2_Witness ==
    /\ min_match = 2
    /\ ~Sorted(toads)
    /\ \E k \in DOMAIN matches :
          Cardinality({toads[x].rxid : x \in Values(matches[k])}) = 2

\* C3: on a sorted input, the timestamps of the members of an emitted match
\* differ by at most window, also when a collision winner replaced the anchor.
C3_WindowBound ==
    \A k \in DOMAIN matches :
        \A x, y \in Values(matches[k]) :
            toads[x].timestamp - toads[y].timestamp <= window

\* A match whose anchor was replaced and whose members are exactly window > 0
\* apart.
C3_Witness ==
    \E k \in DOMAIN matches :
        /\ match_anchor[k] \notin Values(matches[k])
        /\ window > 0
        /\ \E x, y \in Values(matches[k]) :
              toads[x].timestamp - toads[y].timestamp = window

\* C4: the members of an emitted match have pairwise distinct rxid and all
\* carry the txid of the anchor that opened the window.
C4_OnePerReceiverSameTx ==
    \A k \in DOMAIN matches :
        /\ \A r, q \in DOMAIN matches[k] :
              r # q => toads[matches[k][r]].rxid # toads[matches[k][q]].rxid
        /\ \A x \in Values(matches[k]) :
              toads[x].txid = toads[match_anchor[k]].txid

\* A match of two members whose scan passed over a detection of the other
\* transmitter lying between them.
C4_Witness ==
    \E k \in DOMAIN matches :
        \E x, y \in Values(matches[k]) : \E z \in DOMAIN toads :
            /\ x < z /\ z < y
            /\ toads[z].txid # toads[match_anchor[k]].txid

\* C5: a recorded collision is the pair (loser, winner): when a pair is
\* appended, its second component is the detection kept in rx_match for that
\* receiver and its first component is the other one.
C5_LoserThenWinner ==
    [][collisions' # collisions =>
          LET c == collisions'[Len(collisions')]
          IN  /\ rx_match'[toads[c[2]].rxid] = c[2]
              /\ rx_match'[toads[c[1]].rxid] # c[1]]_vars

\* The same-transmitter detections of receiver r in the window of anchor a,
\* the anchor included (the input being sorted).
InWindow(a, r) ==
    {x \in DOMAIN toads :
        /\ x >= a
        /\ toads[x].txid = toads[a].txid
        /\ toads[x].rxid = r
        /\ toads[x].timestamp <= toads[a].timestamp + window}

\* C6: when the scan of a window is over, every receiver with an in-window
\* detection retains one of maximal energy, and among those of maximal
\* energy the one of highest index.
C6_MaxEnergyLatest ==
    (pc = "inner" /\ ScanOver) =>
        \A r \in RxIds :
            InWindow(i, r) # {} =>
                /\ r \in DOMAIN rx_match
                /\ rx_match[r] \in InWindow(i, r)
                /\ \A x \in InWindow(i, r) :
                      /\ toads[x].energy <= toads[rx_match[r]].energy
                      /\ toads[x].energy = toads[rx_match[r]].energy
                            => x <= rx_match[r]

\* A finished scan in which one receiver has three in-window detections: two
\* of equal maximal energy followed by a weaker one.
C6_Witness ==
    /\ pc = "inner"
    /\ ScanOver
    /\ \E r \in RxIds : \E x, y, z \in InWindow(i, r) :
          /\ x < y /\ y < z
          /\ toads[x].energy = toads[y].energy
          /\ toads[y].energy > toads[z].energy
          /\ rx_match[r] = y

\* C7: on a sorted input, a non-anchor detection absorbed into a window that
\* fails the quorum is never an anchor, never a miss and in no match.
C7_AbsorbedStaysConsumed ==
    \A p \in FailedMembers :
        /\ p[2] \notin anchors
        /\ ~InMisses(p[2])
        /\ ~InSomeMatch(p[2])

\* The call returned, and a window that failed the quorum had absorbed a
\* detection of another receiver than its anchor's.
C7_Witness ==
    /\ pc = "done"
    /\ \E p \in FailedMembers : toads[p[2]].rxid # toads[p[1]].rxid

C9_UnsortedRejected ==
    ~Sorted(toads) => (anchors = {} /\ pc # "done")

\* C10: a call with min_match < 1 or window < 0 fails at call time and
\* returns no result.
C10_BadConfigRejected ==
    (min_match < 1 \/ window < 0) =>
        (anchors = {} /\ matches = <<>> /\ pc # "done")

\* C11: for every list of lists of non-negative indices, the empty list
\* included, load_matches applied to the file written by save_matches does
\* not fail and returns the same list, in the same order.
C11_RoundTrip ==
    store_call = "save_load" =>
        /\ store_pc # "raised"
        /\ store_pc = "loaded" => ld_matches = sv_matches

\* A list of two matches was saved and loaded: one of them empty, the other
\* of two indices, of which one has several digits.
C11_Witness ==
    /\ store_call = "save_load"
    /\ store_pc = "loaded"
    /\ Len(sv_matches) = 2
    /\ \E k \in DOMAIN sv_matches : sv_matches[k] = <<>>
    /\ \E k \in DOMAIN sv_matches :
          Len(sv_matches[k]) = 2 /\ \E x \in DOMAIN sv_matches[k] :
              sv_matches[k][x] >= 10

\* The lines of a file, each with its newline.
RECURSIVE LinesFrom(_, _)
LinesFrom(text, p) ==
    IF p > Len(text) THEN <<>>
    ELSE <<LineAt(text, p)>> \o LinesFrom(text, LineEnd(text, p) + 1)

\* A line holding only its newline or whitespace.
IsBlank(line) == \A k \in DOMAIN line : IsSpace(line[k])

IsComment(line) == line # <<>> /\ line[1] = "#"

\* C12: load_matches returns exactly one match per line that is neither
\* blank nor '#'-prefixed, and save_matches never writes a blank or comment
\* line.
C12_OneMatchPerDataLine ==
    /\ store_pc = "loaded" =>
          Len(ld_matches) =
              Len(SelectSeq(LinesFrom(file_text, 1),
                            LAMBDA l : ~IsBlank(l) /\ ~IsComment(l)))
    /\ store_call = "save_load" =>
          \A k \in DOMAIN LinesFrom(file_text, 1) :
              LET l == LinesFrom(file_text, 1)[k]
              IN  ~IsBlank(l) /\ ~IsComment(l)

\* The number of the line that holds position p, counted from 1.
LineNumber(text, p) ==
    1 + Cardinality({k \in 1..(p - 1) : text[k] = NL})

\* C13: load_matches on a file with a non-integer token ends in a parse
\* error that names the number of the offending line and returns no list.
C13_ParseErrorNamesLine ==
    store_pc = "raised" =>
        /\ "lineno" \in DOMAIN ld_error
        /\ ld_error.lineno = LineNumber(file_text, ld_pos)

\* C14: every row of the matrix has length len(rxids) and no None cell, its
\* cell k is an index of the source match whose detection has rxid rxids[k],
\* and a match lacking a detection of some receiver of rxids gives no row.
C14_CompleteRows ==
    /\ \A n \in DOMAIN matrix :
          LET row == matrix[n]
              src == mx_matches[mx_src[n]]
          IN  /\ Len(row) = Len(mx_rxids)
              /\ \A k \in DOMAIN row :
                    /\ row[k] # NoneCell
                    /\ \E x \in DOMAIN src : src[x] = row[k]
                    /\ mx_detections[row[k]].rxid = mx_rxids[k]
    /\ \A q \in 1..mx_k :
          (\E k \in DOMAIN mx_rxids :
              \A x \in DOMAIN mx_matches[q] :
                  mx_detections[mx_matches[q][x]].rxid # mx_rxids[k])
            => \A n \in DOMAIN mx_src : mx_src[n] # q

\* The call returned: the first match lacked a receiver and gave no row, the
\* second gave a row of two cells in another order than the match's.
C14_Witness ==
    /\ mx_pc = "done"
    /\ Len(mx_matches) = 2
    /\ mx_src = <<2>>
    /\ Len(matrix[1]) = 2
    /\ matrix[1][1] = mx_matches[2][2]
    /\ matrix[1][1] # matrix[1][2]

\* C15: when txids is supplied, no row is emitted for a match whose
\* transmitter id (that of its first detection) is not in txids, for every
\* rxids, the empty ordering included.
C15_TxFilterDropsRow ==
    \A n \in DOMAIN matrix :
        LET src == mx_matches[mx_src[n]]
        IN  (mx_txids.given /\ src # <<>>) =>
                mx_detections[src[1]].txid \in mx_txids.ids

\* C16, as claimed: every emitted match contains the anchor that opened its
\* window, and no member has a lower index or a lower timestamp than it.
C16_AnchorIsEarliestMember ==
    \A k \in DOMAIN matches :
        /\ match_anchor[k] \in Values(matches[k])
        /\ \A x \in Values(matches[k]) :
              /\ match_anchor[k] <= x
              /\ toads[match_anchor[k]].timestamp <= toads[x].timestamp

\* C16, amended: on a sorted input every emitted match contains the anchor
\* that opened its window unless the anchor lost a collision in that window,
\* and no member has a lower index or a lower timestamp than the anchor.
C16_AnchorOrItsWinner ==
    \A k \in DOMAIN matches :
        /\ match_anchor[k] \in Values(matches[k]) \/ IsLoser(match_anchor[k])
        /\ \A x \in Values(matches[k]) :
              /\ match_anchor[k] <= x
              /\ toads[match_anchor[k]].timestamp <= toads[x].timestamp

\* The call returned a match of two members whose anchor lost a collision
\* and is not among them.
C16_Witness ==
    /\ pc = "done"
    /\ \E k \in DOMAIN matches :
          /\ match_anchor[k] \notin Values(matches[k])
          /\ IsLoser(match_anchor[k])
          /\ Cardinality(Values(matches[k])) = 2

\* C17: on a sorted input no index is a member of two different matches and
\* no index is absorbed by the scans of two different anchors.
C17_ConsumeOnce ==
    /\ \A k, l \in DOMAIN matches :
          k # l => Values(matches[k]) \cap Values(matches[l]) = {}
    /\ \A p, q \in absorbed : p[2] = q[2] => p[1] = q[1]

\* The call returned two matches of one transmitter, the first of which had
\* absorbed a detection.
C17_Witness ==
    /\ pc = "done"
    /\ \E k, l \in DOMAIN matches :
          /\ k < l
          /\ toads[match_anchor[k]].txid = toads[match_anchor[l]].txid
          /\ \E p \in absorbed : p[1] = match_anchor[k]

\* The detections of another transmitter lying after anchor a inside its
\* window.
OtherTxInWindow(a) ==
    {x \in DOMAIN toads :
        /\ x > a
        /\ toads[x].txid # toads[a].txid
        /\ toads[x].timestamp <= toads[a].timestamp + window}

\* Frame of a scan: only detections of the anchor's transmitter are absorbed
\* or entered in its accumulation map, and a consumed detection was absorbed
\* by an anchor of its own transmitter.
ScanFrame ==
    /\ \A p \in absorbed : toads[p[2]].txid = toads[p[1]].txid
    /\ \A x \in DOMAIN toads :
          killed[x] => \E p \in absorbed : p[2] = x
    /\ pc = "inner" =>
          \A r \in DOMAIN rx_match :
              toads[rx_match[r]].txid = toads[i].txid

\* C18, as claimed: the scan of an anchor leaves the detections of another
\* transmitter alone, and each of them lying inside the anchor's window
\* later becomes an anchor itself.
C18_OtherTxBecomesAnchor ==
    /\ ScanFrame
    /\ pc = "done" =>
          \A a \in anchors : \A x \in OtherTxInWindow(a) : x \in anchors

\* C18, amended: the scan of an anchor leaves the detections of another
\* transmitter alone, and each of them lying inside the anchor's window is,
\* when the call returns, an anchor itself or absorbed by an anchor of its
\* own transmitter.
C18_OtherTxMatchedIndependently ==
    /\ ScanFrame
    /\ pc = "done" =>
          \A a \in anchors : \A x \in OtherTxInWindow(a) :
              \/ x \in anchors
              \/ \E b \in anchors :
                    /\ <<b, x>> \in absorbed
                    /\ toads[b].txid = toads[x].txid
                    /\ toads[b].txid # toads[a].txid

\* The call returned; inside the window of an anchor lay a detection of
\* another transmitter that became an anchor, and one that was absorbed by
\* an anchor of its own transmitter.
C18_Witness ==
    /\ pc = "done"
    /\ \E a \in anchors : \E x, y \in OtherTxInWindow(a) :
          /\ x \in anchors
          /\ <<x, y>> \in absorbed


\* C19: on a sorted input the implemented scan (transmitter tested first,
\* break at a same-transmitter detection beyond the window) and the
\* specified scan (stop at the first detection of any transmitter beyond the
\* window) return the same matches, misses and collisions.
C19_GlobalExitSameResult ==
    pc = "done" =>
        LET g == GlobalExitMatch(toads, window, min_match)
        IN  /\ matches = g.matches
            /\ misses = g.misses
            /\ collisions = g.collisions

\* The call returned, and the scan of some anchor went past a detection of
\* another transmitter beyond the window, where the specified scan stops,
\* with a detection of the anchor's transmitter still ahead.
C19_Witness ==
    /\ pc = "done"
    /\ \E a \in anchors : \E x, y \in DOMAIN toads :
          /\ a < x /\ x < y
          /\ toads[x].txid # toads[a].txid
          /\ toads[x].timestamp > toads[a].timestamp + window
          /\ toads[y].txid = toads[a].txid

\* The input with every energy replaced by the same value.
EraseEnergy(t) == [x \in DOMAIN t |-> [t[x] EXCEPT !.energy = 1]]

\* What C20 says does not depend on the energies: the misses, the consumed
\* indices, the numbers of matches and of collisions, and the receivers
\* covered by each match in turn.
Observed(t, st) ==
    [misses |-> st.misses,
     consumed |-> {x \in DOMAIN t : st.killed[x]},
     matches |-> [k \in DOMAIN st.matches |->
                    {t[x].rxid : x \in Values(st.matches[k])}],
     collisions |-> Len(st.collisions)]

\* C20: on a sorted input the observed result equals that of the same input
\* with all energies erased, so that two inputs differing only in energies
\* are observed alike.
C20_EnergyOnlyBreaksTies ==
    pc = "done" =>
        Observed(toads, [killed |-> killed, matches |-> matches,
                         misses |-> misses, collisions |-> collisions])
          = Observed(toads, MatchToadsFn(EraseEnergy(toads), window,
                                         min_match))

\* The call returned matches that differ from those of the erased input: a
\* stronger earlier detection represents its receiver.
C20_Witness ==
    /\ pc = "done"
    /\ matches # MatchToadsFn(EraseEnergy(toads), window, min_match).matches


=============================================================================
